---- MODULE Spec2Model ----
(***************************************************************************)
(* Model of the queue / worker / processor core of process_files.py:       *)
(* the processing_queue and media_files tables, the intake directory, the  *)
(* single asyncio queue worker (process_queue_worker driving               *)
(* MediaProcessor.process_file), intake discovery (FileWatcher.on_created, *)
(* scan_for_new_files, the startup scan of main) and a process kill        *)
(* followed by a restart.                                                  *)
(*                                                                         *)
(* Time is kept as ages: a timestamp column holds NULL or the number of    *)
(* ticks since it was set to NOW(), saturating at CoolTicks, the number of *)
(* ticks that stands for the 5 minute retry interval.                      *)
(***************************************************************************)
EXTENDS Integers, Sequences, FiniteSets, TLC

(* ------------------------------ bounds -------------------------------- *)
NPaths == 2        \* intake paths 1..NPaths
NContents == 1     \* byte contents 0..NContents; 0 is the 0-byte file
CoolTicks == 1     \* ticks that make up the 5 minute interval
MaxFaults == 2     \* exceptions injected per run
MaxCrashes == 1    \* process kills per run
MaxOtherErrors == 4 \* exceptions of the retry handler's kind in RetryHandlerSpec
DispatchCap == 4   \* the dispatch counter saturates here

(* -------------------------- program constants ------------------------- *)
DefaultMaxRetries == 3   \* processing_queue.max_retries column default
PendingLimit == 5        \* get_pending_jobs(limit=5)
FailedLimit == 3         \* get_failed_jobs_for_retry(limit=3)

Paths == 1..NPaths
\* files in a subdirectory of the intake directory
NNested == 1
NestedPaths == (NPaths + 1)..(NPaths + NNested)
AllPaths == Paths \cup NestedPaths
Contents == 0..NContents
NoFile == NContents + 1        \* fs[p] = NoFile: no file at path p
EmptyContent == 0

NULL == {}
Now == {0}
IsNull(t) == t = {}
AgeOf(t) == CHOOSE a \in t : TRUE
Older(t) == IF IsNull(t) THEN t ELSE {IF AgeOf(t) < CoolTicks THEN AgeOf(t) + 1 ELSE CoolTicks}
\* completed_at < NOW() - INTERVAL '5 minutes'
OlderThanCooldown(t) == ~IsNull(t) /\ AgeOf(t) >= CoolTicks

NoMsg == [text |-> "NULL", id |-> 0]
Msg(s) == [text |-> s, id |-> 0]
\* f"Duplicate of existing file ID: {duplicate['id']}"
DuplicateNote(id) == [text |-> "Duplicate of existing file ID", id |-> id]
\* str(e) of the exception kinds the model raises
StrOf(e) == Msg(e)

\* the suffix decides the file type; odd paths carry an image suffix, even ones a video suffix
FileTypeOf(p) == IF p % 2 = 1 THEN "image" ELSE "video"

\* hashlib.sha256 over the file's bytes: one digest per content
calculate_file_hash(c) == c + 100

\* the INSERT of line 323 names no priority: every row has the column default
DefaultPriority == 0

AbsentRow == [status |-> "absent", file_type |-> "none", retry_count |-> 0,
              max_retries |-> DefaultMaxRetries, priority |-> DefaultPriority, queued_at |-> 0,
              started_at |-> NULL, completed_at |-> NULL, error_message |-> NoMsg]

NoJob == [path |-> 0, retry_count |-> 0, max_retries |-> 0]

NoPf == [file_hash |-> 0, duplicate |-> 0, file_id |-> 0, exc |-> "none"]

VARIABLES
    fs,          \* intake directory: path -> content or NoFile
    queue,       \* processing_queue: path -> row (status "absent": no row)
    assets,      \* media_files: set of rows
    wpc,         \* position of the process: startup scan, worker loop, process_file
    jobs,        \* all_jobs of the current round still to be driven
    cur,         \* job handed to process_file
    pf,          \* process_file locals: file_hash, duplicate, file_id, caught exception
    faults,      \* exceptions injected so far
    crashes,     \* process kills so far
    killed,      \* history: file id of the last attempt killed before save_media_metadata committed
    dispatches,  \* history: times each path was handed to process_file, saturating
    lastFail,    \* history: age of the end of each path's last failed attempt
    out,         \* files the job in hand has written: name -> state of the file
    keys,        \* encryption_keys: set of rows
    keyfile,     \* /app/private/encryption.key
    kpc,         \* per process: position in get_or_create_encryption_key / the video encoder
    kkey,        \* per process: key of get_or_create_encryption_key (0: None)
    kjob,        \* per process: caller of get_or_create_encryption_key
    kfaults,     \* INSERTs of a key that raised so far
    img,         \* process_image: img.size of the opened image and of the saved one
    vid,         \* process_video: size ffprobe reports, size of the emitted stream, size returned
    plain,       \* encrypt_file: bytes read, padded bytes, bytes written to the .enc file
    entry,       \* an entry of the intake directory: kind, suffix, who has looked at it, its
                 \* row's file_type, the transformer process_file called
    vjob,        \* process_video: position, encoder subprocess, thumbnail task, key-info
                 \* descriptor, and the parity of the health monitor's checks
    tjob,        \* generate_animated_thumbnail: position, the two files, the tool runs
    wloop,       \* process_queue_worker: consecutive_errors, how the last round ended, its sleep
    pool         \* DatabaseManager.connection_pool and the threads that borrow from it

svcvars == <<fs, queue, assets, wpc, jobs, cur, pf, faults, crashes, killed, dispatches, lastFail, out>>
keyvars == <<keys, keyfile, kpc, kkey, kjob, kfaults>>
mediavars == <<img, vid, plain, entry, vjob, tjob, wloop, pool>>
vars == <<svcvars, keyvars, mediavars>>

(* ------------------------- catalog operations ------------------------- *)
\* variant: ON CONFLICT (file_path) DO UPDATE SET status = 'queued'
add_to_processing_queue_upsert(q, p, ft) ==
    IF q[p].status # "absent" THEN [q EXCEPT ![p] = [@ EXCEPT !.status = "queued"]]
    ELSE [q EXCEPT ![p] = [AbsentRow EXCEPT !.status = "queued", !.file_type = ft,
              !.queued_at = Cardinality({r \in DOMAIN q : q[r].status # "absent"}) + 1]]

\* INSERT ... VALUES (file_path, file_type, 'queued') ON CONFLICT (file_path) DO NOTHING
add_to_processing_queue(q, p, ft) ==
    IF q[p].status # "absent" THEN q
    ELSE [q EXCEPT ![p] = [AbsentRow EXCEPT !.status = "queued", !.file_type = ft,
              !.queued_at = Cardinality({r \in DOMAIN q : q[r].status # "absent"}) + 1]]

\* UPDATE ... SET status, error_message, started_at = CASE ..., completed_at = CASE ...
update_queue_status(q, p, st, msg) ==
    IF q[p].status = "absent" THEN q
    ELSE [q EXCEPT ![p] = [@ EXCEPT
              !.status = st,
              !.error_message = msg,
              !.started_at = IF st = "processing" THEN Now ELSE @,
              !.completed_at = IF st \in {"completed", "failed"} THEN Now ELSE @]]

\* UPDATE ... SET status = 'processing', started_at = NOW()
mark_job_as_processing(q, p) ==
    IF q[p].status = "absent" THEN q
    ELSE [q EXCEPT ![p] = [@ EXCEPT !.status = "processing", !.started_at = Now]]

\* variant: the UPDATE without its WHERE clause
increment_retry_count_all(q, p) ==
    [r \in DOMAIN q |-> IF q[r].status = "absent" THEN q[r]
                     ELSE [q[r] EXCEPT !.retry_count = @ + 1, !.status = "queued",
                                       !.error_message = NoMsg, !.started_at = NULL,
                                       !.completed_at = NULL]]

\* UPDATE ... SET retry_count = retry_count + 1, status = 'queued', the rest NULL
\* WHERE id = %s
increment_retry_count(q, p) ==
    IF q[p].status = "absent" THEN q
    ELSE [q EXCEPT ![p] = [@ EXCEPT
              !.retry_count = @ + 1,
              !.status = "queued",
              !.error_message = NoMsg,
              !.started_at = NULL,
              !.completed_at = NULL]]

\* the rows in ORDER BY priority DESC, queued_at ASC
ByQueuedAt(q) ==
    LET R == {r \in DOMAIN q : q[r].status # "absent"}
        Before(a, b) == \/ q[a].priority > q[b].priority
                        \/ q[a].priority = q[b].priority /\ q[a].queued_at < q[b].queued_at
    IN  [k \in 1..Cardinality(R) |->
            CHOOSE p \in R : Cardinality({r \in R : Before(r, p)}) = k - 1]

Limit(s, n) == IF Len(s) <= n THEN s ELSE SubSeq(s, 1, n)

Snapshot(q, s) ==
    [k \in 1..Len(s) |-> [path |-> s[k], retry_count |-> q[s[k]].retry_count,
                          max_retries |-> q[s[k]].max_retries]]

PendingTest(q, p) == q[p].status = "queued" /\ q[p].retry_count < q[p].max_retries

get_pending_jobs(q, limit) ==
    LET Test(p) == PendingTest(q, p)
    IN  Snapshot(q, Limit(SelectSeq(ByQueuedAt(q), Test), limit))

FailedTest(q, p) ==
    /\ q[p].status = "failed"
    /\ q[p].retry_count < q[p].max_retries
    /\ (IsNull(q[p].completed_at) \/ OlderThanCooldown(q[p].completed_at))

get_failed_jobs_for_retry(q, limit) ==
    LET Test(p) == FailedTest(q, p)
    IN  Snapshot(q, Limit(SelectSeq(ByQueuedAt(q), Test), limit))

\* variant: the lookup compares the id column with the digest
check_duplicate_by_id(a, h) == {m \in a : m.id = h}

\* SELECT ... FROM media_files WHERE file_hash = %s LIMIT 1
check_duplicate_by_hash(a, h) == {m \in a : m.file_hash = h}

\* INSERT INTO media_files (...)
save_media_metadata(a, m) == a \cup {m}

\* variant: an id that does not change from one attempt to the next
generate_file_id_fixed(used) == 1

\* sha256(path + timestamp)[:16]: an id no row and no earlier attempt carries
generate_file_id(used) == CHOOSE n \in 1..(Cardinality(used) + 1) : n \notin used

(* --------------------------- output files ------------------------------ *)
\* the files a job writes, by role: for an image {id}.webp ("main") and
\* {id}_thumb.webp ("thumb"); for a video stream.m3u8 with its segments
\* ("stream"), thumbnail.webp ("thumb"), preview.webp ("preview") and
\* private/key_info_{id}.txt ("key_info"); "non-existent" is Path("non-existent")
PlainNames == {"main", "thumb", "preview", "stream", "key_info", "non-existent"}
EncNames == {"main.enc", "thumb.enc", "preview.enc", "non-existent.enc"}
FileNames == PlainNames \cup EncNames
FileStates == {"none", "empty", "data", "enc", "placeholder"}

\* file_path.with_suffix(file_path.suffix + '.enc')
EncPath(n) ==
    CASE n = "main" -> "main.enc"
      [] n = "thumb" -> "thumb.enc"
      [] n = "preview" -> "preview.enc"
      [] n = "non-existent" -> "non-existent.enc"

NoOut == [n \in FileNames |-> "none"]

\* lines 579-660; raises: an exception inside the try block of lines 620-651
RECURSIVE encrypt_file(_, _, _)
encrypt_file(d, n, raises) ==
    IF d[n] = "none"
    THEN [d EXCEPT ![EncPath(n)] = "placeholder"]
    ELSE IF d[n] = "empty"
    THEN encrypt_file([d EXCEPT ![n] = "none"], "non-existent", FALSE)
    ELSE IF raises
    THEN encrypt_file([d EXCEPT ![EncPath(n)] = "none"], "non-existent", FALSE)
    ELSE [d EXCEPT ![EncPath(n)] = "enc", ![n] = "none"]

\* what the tools leave for the two artifacts handed to encrypt_file, and
\* whether each encryption raises
Outcomes ==
    {o \in [a : {"data", "empty"}, b : {"data", "empty"}, r1 : BOOLEAN, r2 : BOOLEAN] :
        (o.r1 => o.a = "data") /\ (o.r2 => o.b = "data")}
Normal == [a |-> "data", b |-> "data", r1 |-> FALSE, r2 |-> FALSE]
Cost(o) == Cardinality({k \in {"a", "b"} : o[k] = "empty"}) + Cardinality({k \in {"r1", "r2"} : o[k]})

\* lines 535-577
process_image(d, o) ==
    LET saved == [d EXCEPT !["main"] = o.a, !["thumb"] = o.b]
    IN  encrypt_file(encrypt_file(saved, "main", o.r1), "thumb", o.r2)

\* lines 686-750
process_video(d, o) ==
    LET encoded == [d EXCEPT !["key_info"] = "data", !["stream"] = "data",
                             !["thumb"] = o.a, !["preview"] = o.b]
        encrypted == encrypt_file(encrypt_file(encoded, "thumb", o.r1), "preview", o.r2)
    IN  [encrypted EXCEPT !["key_info"] = "none"]

Transform(ft, d, o) == IF ft = "image" THEN process_image(d, o) ELSE process_video(d, o)

\* storage_path, thumbnail_path and preview_path of the returned dict
RecordedPaths(ft) ==
    IF ft = "image" THEN {"main.enc", "thumb.enc"} ELSE {"stream", "thumb.enc", "preview.enc"}

(* ------------------------------ helpers ------------------------------- *)
Exists(p) == fs[p] # NoFile
\* imports_path.iterdir(): the entries of the intake directory itself, not of its subdirectories
Files == {p \in Paths : Exists(p)}
AfterJob(rest) == IF rest = <<>> THEN "poll" ELSE "job"
AttemptFailed(lf, p) == [lf EXCEPT ![p] = Now]
Bump(d, p) == [d EXCEPT ![p] = IF @ < DispatchCap THEN @ + 1 ELSE @]
UsedIds == {m.id : m \in assets} \cup killed

\* variant: the handler increments while retry_count < max_retries
RetryHandlerWhileBelow(q, job, ok) ==
    IF job.retry_count < job.max_retries /\ ok
    THEN increment_retry_count(q, job.path)
    ELSE q

\* the "except Exception" of the job loop, lines 1083-1093; ok: the update did not raise
RetryHandler(q, job, ok) ==
    IF job.retry_count + 1 < job.max_retries /\ ok
    THEN increment_retry_count(q, job.path)
    ELSE q

RECURSIVE AddAll(_, _)
AddAll(q, s) ==
    IF s = <<>> THEN q
    ELSE AddAll(add_to_processing_queue(q, Head(s), FileTypeOf(Head(s))), Tail(s))

Orders(S) == {s \in [1..Cardinality(S) -> S] : \A i, j \in 1..Cardinality(S) : s[i] = s[j] => i = j}

(* ------------------------------ images -------------------------------- *)
max_width == 3840
max_height == 2160

Abs(n) == IF n < 0 THEN 0 - n ELSE n
Max(a, b) == IF a >= b THEN a ELSE b

\* round_aspect of Image.thumbnail for the width y * w / h: floor or ceil,
\* whichever keeps the ratio closer (the floor on a tie), and at least 1
RoundWidth(w, h, y) ==
    LET f == (y * w) \div h
        c == IF (y * w) % h = 0 THEN f ELSE f + 1
    IN  Max(IF Abs(w * y - f * h) <= Abs(w * y - c * h) THEN f ELSE c, 1)

\* round_aspect of Image.thumbnail for the height x * h / w; the key of 0 is 0
RoundHeight(w, h, x) ==
    LET f == (x * h) \div w
        c == IF (x * h) % w = 0 THEN f ELSE f + 1
    IN  Max(IF f = 0 \/ Abs(w * f - x * h) * c <= Abs(w * c - x * h) * f THEN f ELSE c, 1)

\* variant: the image is fitted to the width of the box only
thumbnail_fit_width(w, h, x, y) ==
    IF x >= w THEN <<w, h>> ELSE <<x, RoundHeight(w, h, x)>>

\* img.thumbnail((x, y), LANCZOS): the size of the image afterwards
thumbnail(w, h, x, y) ==
    IF x >= w /\ y >= h THEN <<w, h>>
    ELSE IF x * h >= y * w THEN <<RoundWidth(w, h, y), y>>
    ELSE <<x, RoundHeight(w, h, x)>>

\* lines 557-563: width, height = img.size after the resize
ImageSize(w, h) ==
    IF w > max_width \/ h > max_height THEN thumbnail(w, h, max_width, max_height)
    ELSE <<w, h>>

NoSize == <<0, 0>>
NoImage == [size |-> NoSize, saved |-> NoSize]

\* the image sizes the model opens: small ones, those around the cap, and multiples of DimStride
MaxImageDim == 8000
DimMargin == 2
DimStride == 1000
ImageDims(cap) ==
    {n \in 1..MaxImageDim : n <= DimMargin \/ Abs(n - cap) <= DimMargin \/ n % DimStride = 0}

(* ------------------------------ videos -------------------------------- *)
StreamMaxWidth == 1280
StreamMaxHeight == 720

\* variant: the factor without its min(1, ...)
scale_unclamped(iw, ih) ==
    IF StreamMaxWidth * ih <= StreamMaxHeight * iw THEN <<StreamMaxWidth, iw>>
    ELSE <<StreamMaxHeight, ih>>

\* min(1, min(1280/iw, 720/ih)) as a fraction <<numerator, denominator>>
scale(iw, ih) ==
    IF iw <= StreamMaxWidth /\ ih <= StreamMaxHeight THEN <<1, 1>>
    ELSE IF StreamMaxWidth * ih <= StreamMaxHeight * iw THEN <<StreamMaxWidth, iw>>
    ELSE <<StreamMaxHeight, ih>>

\* scale=w=trunc(iw*s/2)*2:h=trunc(ih*s/2)*2
StreamSize(iw, ih) ==
    LET s == scale(iw, ih)
    IN  <<2 * ((iw * s[1]) \div (2 * s[2])), 2 * ((ih * s[1]) \div (2 * s[2]))>>

NoVideo == [size |-> NoSize, stream |-> NoSize, recorded |-> NoSize]

\* the source sizes the model probes: those of ImageDims and full HD
VideoDims(cap) == ImageDims(cap) \cup {1920, 1080}

(* ------------------------------ cipher -------------------------------- *)
BlockSize == 16
ByteRange == 256
MaxPlainLen == 33
PlainBytes == {0, 1, BlockSize}
IvBytes == {0, ByteRange - 1}

\* variant: no padding when the length is a multiple of the block size
pad_len_aligned(n) == (BlockSize - (n % BlockSize)) % BlockSize

\* pad_len = 16 - (len(plaintext) % 16)
pad_len(n) == BlockSize - (n % BlockSize)

\* plaintext += bytes([pad_len]) * pad_len
Pad(t) == t \o [i \in 1..pad_len(Len(t)) |-> pad_len(Len(t))]

\* CBC over a stand-in block cipher that adds the key byte to every byte: each
\* block is combined with the previous ciphertext block (the IV for the first);
\* the output is as long as the input
CbcEncrypt(key, iv, t) ==
    LET c[i \in 1..Len(t)] ==
            (t[i] + key + (IF i <= BlockSize THEN iv[i] ELSE c[i - BlockSize])) % ByteRange
    IN  c

CbcDecrypt(key, iv, c) ==
    [i \in 1..Len(c) |->
        (c[i] + 2 * ByteRange - key - (IF i <= BlockSize THEN iv[i] ELSE c[i - BlockSize])) % ByteRange]

\* what a reader of the .enc file does: split off the IV, decrypt, drop the padding
\* the last byte announces
Unpad(t) == SubSeq(t, 1, Len(t) - t[Len(t)])
DecryptFile(key, w) ==
    Unpad(CbcDecrypt(key, SubSeq(w, 1, BlockSize), SubSeq(w, BlockSize + 1, Len(w))))

KeyByte == 7
NoPlain == [text |-> <<>>, padded |-> <<>>, written |-> <<>>]

(* ------------------------------ suffixes ------------------------------ *)
image_extensions == {".jpg", ".jpeg", ".png", ".gif", ".webp", ".heic", ".heif", ".dng"}
video_extensions == {".mp4", ".avi", ".mov", ".mkv", ".wmv", ".flv", ".webm"}
OtherExtensions == {"", ".txt", ".mp3", ".part"}
\* a suffix as written: its letters, and whether they are lower case, upper case or mixed
Suffixes ==
    [letters : image_extensions \cup video_extensions \cup OtherExtensions,
     cased : {"lower", "upper", "mixed"}]

\* variant: the suffix is compared as written
as_written(sfx) == IF sfx.cased = "lower" THEN sfx.letters ELSE "not lower case"

\* file_path.suffix.lower()
lower(sfx) == sfx.letters

\* lines 962-971, 996-1007, 1181-1185: the file_type for a suffix, "none" if not supported
TypeOfSuffix(sfx) ==
    LET ext == lower(sfx)
    IN  IF ext \in image_extensions THEN "image"
        ELSE IF ext \in video_extensions THEN "video"
        ELSE "none"

\* on_created: directories are skipped (event.is_directory)
WatcherType(e) == IF e.kind = "dir" THEN "none" ELSE TypeOfSuffix(e.suffix)
\* startup scan and periodic scan: file_path.is_file()
ScanType(e) == IF e.kind = "file" THEN TypeOfSuffix(e.suffix) ELSE "none"
\* process_file, lines 490-498: the transformer by the suffix
TransformerOf(e) ==
    LET ext == lower(e.suffix)
    IN  IF ext \in image_extensions THEN "image"
        ELSE IF ext \in video_extensions THEN "video"
        ELSE "unsupported"

NoEntry == [kind |-> "none", suffix |-> [letters |-> "", cased |-> "lower"],
            seen |-> {}, file_type |-> "none", transformer |-> "none"]

(* ----------------------- video thumbnails ------------------------------ *)
\* a file of videos/{id}/: whether it exists, and its size in bytes
Missing == [exists |-> FALSE, size |-> 0]
File(n) == [exists |-> TRUE, size |-> n]
\* what a tool run leaves at its output path: nothing, or a file of some size
NoWrite == 0 - 1
SizeThreshold == 1000
ToolWrites == {NoWrite, 0, SizeThreshold - 1, SizeThreshold, SizeThreshold + 1}
Written(f, w) == IF w = NoWrite THEN f ELSE File(w)
\* the embedded 1x1 WebP of the last resort, and what the PIL placeholder may weigh
MinimalWebp == 44
PlaceholderSizes == {MinimalWebp, SizeThreshold - 1, SizeThreshold + 1}
\* exit status and output of the two ffmpeg attempts, and the placeholder
StaticOutcomes ==
    [rc1 : {0, 1}, w1 : ToolWrites, rc2 : {0, 1}, w2 : ToolWrites, ph : PlaceholderSizes]

\* line 800, for durations that are multiples of ten seconds
start_time(duration) == IF duration \div 10 > 5 THEN duration \div 10 ELSE 5

\* "exists() and st_size > 1000"
Usable(f) == f.exists /\ f.size > SizeThreshold

\* variant: the two ffmpeg attempts only, no placeholder
static_attempts_only(f, o) ==
    LET f1 == Written(f, o.w1)
        f2 == Written(f1, o.w2)
    IN  IF o.rc1 = 0 /\ Usable(f1) THEN f1 ELSE f2

\* create_static_thumbnail, lines 887-948: the file at output_path afterwards
create_static_thumbnail(f, o) ==
    LET f1 == Written(f, o.w1)
        f2 == Written(f1, o.w2)
    IN  IF o.rc1 = 0 /\ Usable(f1) THEN f1
        ELSE IF o.rc2 = 0 /\ Usable(f2) THEN f2
        ELSE File(o.ph)

NoThumbJob == [pc |-> "none", duration |-> 0, thumbnail |-> Missing, preview |-> Missing,
               animated_rc |-> 0, animated_file |-> Missing, animated_success |-> FALSE,
               preview_attempted |-> FALSE, static_calls |-> <<>>]

(* ----------------------- worker loop, pool ----------------------------- *)
\* line 1040; ended, slept: how the last round ended and the sleep that followed;
\* streak, general_run, db_run: history, the rounds in a row that ended in an
\* error, in a general error, in a database error
NoLoop == [consecutive_errors |-> 0, ended |-> "none", slept |-> 0,
           streak |-> 0, general_run |-> 0, db_run |-> 0]
max_consecutive_errors == 5
PollInterval == 5
MaxStreak == 11
Min(a, b) == IF a <= b THEN a ELSE b
\* the threads that call the DatabaseManager: the event loop's thread (worker,
\* scanner, health monitor) and the watchdog observer's thread (on_created)
Threads == {"main", "watcher"}
connection_max_retries == 3
MaxConnFaults == 2
\* after db.connect() of main (line 1146): ref is self.connection_pool, conn the
\* connection each thread has borrowed, tpc its position in a catalog call,
\* attempt the loop variable of _get_connection, faults the failed tests so far
NoPool == [ref |-> "open",
           conn |-> [t \in Threads |-> "none"],
           tpc |-> [t \in Threads |-> "idle"],
           attempt |-> [t \in Threads |-> 0],
           faults |-> 0]

NoVideoJob == [pc |-> "idle", encoder |-> "off", thumb |-> "none", key_info |-> FALSE,
               checks |-> 0]

\* no image, video, plaintext or directory entry in hand, no video job under way
MediaIdle ==
    /\ img = NoImage /\ vid = NoVideo /\ plain = NoPlain /\ entry = NoEntry
    /\ vjob = NoVideoJob
    /\ tjob = NoThumbJob
    /\ wloop = NoLoop
    /\ pool = NoPool

(* key store: the processes that share the catalog and the private directory *)
NProcs == 2
MaxKeyFaults == 1
Procs == 1..NProcs

\* a row of encryption_keys as the INSERT of line 279 writes it
KeyRow(n) == [id |-> n, key_value |-> n, is_active |-> TRUE]
\* the table accepts every INSERT: no uniqueness constraint on is_active
InsertKeyRow(t, n) == t \cup {KeyRow(n)}
\* WHERE is_active = true
ActiveKeys(t) == {k \in t : k.is_active}

NoKeyFile == [exists |-> FALSE, bytes |-> <<>>]
Truncated == [exists |-> TRUE, bytes |-> <<>>]
KeyBytes(key_value) == [exists |-> TRUE, bytes |-> <<key_value>>]

\* the key store once MediaProcessor() has returned in every process
KeyReady ==
    /\ keys = {KeyRow(1)}
    /\ keyfile = KeyBytes(1)
    /\ kpc = [p \in Procs |-> "idle"]
    /\ kkey = [p \in Procs |-> 1]
    /\ kjob = [p \in Procs |-> "init"]
    /\ kfaults = 0

Init ==
    /\ KeyReady
    /\ MediaIdle
    /\ fs = [p \in AllPaths |-> NoFile]
    /\ queue = [p \in AllPaths |-> AbsentRow]
    /\ assets = {}
    /\ wpc = "startup"
    /\ jobs = <<>>
    /\ cur = NoJob
    /\ pf = NoPf
    /\ faults = 0
    /\ crashes = 0
    /\ killed = {}
    /\ dispatches = [p \in Paths |-> 0]
    /\ lastFail = [p \in Paths |-> NULL]
    /\ out = NoOut

(* ---------------------------- environment ----------------------------- *)
\* an external producer deposits a file in the intake directory
DropFile(p, c) ==
    /\ fs[p] = NoFile
    /\ fs' = [fs EXCEPT ![p] = c]
    /\ UNCHANGED <<queue, assets, wpc, jobs, cur, pf, faults, crashes, killed, dispatches, lastFail, out, keyvars, mediavars>>

\* and may take it away again, unless process_file is working on it
RemoveFile(p) ==
    /\ Exists(p)
    /\ p # cur.path
    /\ fs' = [fs EXCEPT ![p] = NoFile]
    /\ UNCHANGED <<queue, assets, wpc, jobs, cur, pf, faults, crashes, killed, dispatches, lastFail, out, keyvars, mediavars>>

Tick ==
    /\ queue' = [p \in AllPaths |-> [queue[p] EXCEPT !.completed_at = Older(@)]]
    /\ lastFail' = [p \in Paths |-> Older(lastFail[p])]
    /\ UNCHANGED <<fs, assets, wpc, jobs, cur, pf, faults, crashes, killed, dispatches, out, keyvars, mediavars>>

\* the process is killed and the service started again: main runs from the top
Crash ==
    /\ crashes < MaxCrashes
    /\ crashes' = crashes + 1
    /\ killed' = IF wpc \in {"pf_transform", "pf_keycheck", "pf_save"} THEN {pf.file_id} ELSE killed
    /\ wpc' = "startup"
    /\ jobs' = <<>>
    /\ cur' = NoJob
    /\ pf' = NoPf
    /\ out' = NoOut
    /\ UNCHANGED <<fs, queue, assets, faults, dispatches, lastFail, keyvars, mediavars>>

(* -------------------------- intake discovery -------------------------- *)
\* FileWatcher.on_created, on the observer thread
WatcherCreated(p) ==
    /\ Exists(p)
    /\ queue' = add_to_processing_queue(queue, p, FileTypeOf(p))
    /\ UNCHANGED <<fs, assets, wpc, jobs, cur, pf, faults, crashes, killed, dispatches, lastFail, out, keyvars, mediavars>>

\* one file of scan_for_new_files; the task runs while the worker is suspended
\* (asyncio.sleep, or the await of the thumbnail task of a video job).  existing
\* may be read before an insert by the observer thread lands.
ScanFile(p) ==
    /\ wpc = "poll" \/ (wpc = "pf_transform" /\ FileTypeOf(cur.path) = "video")
    /\ p \in Files
    /\ \E existing \in {queue[p].status # "absent", FALSE} :
          queue' = IF existing THEN queue ELSE add_to_processing_queue(queue, p, FileTypeOf(p))
    /\ UNCHANGED <<fs, assets, wpc, jobs, cur, pf, faults, crashes, killed, dispatches, lastFail, out, keyvars, mediavars>>

\* main, lines 1176-1190: the files of the intake directory are added in
\* directory order; S: the files whose insert does not raise
\* variant: the scan loop yields to the event loop after its first insert
StartupScanYielding(S) ==
    /\ wpc = "startup"
    /\ \E s \in Orders(S) : queue' = AddAll(queue, IF s = <<>> THEN s ELSE <<Head(s)>>)
    /\ wpc' = "poll"
    /\ faults + Cardinality(Files \ S) <= MaxFaults
    /\ faults' = faults + Cardinality(Files \ S)
    /\ UNCHANGED <<fs, assets, jobs, cur, pf, crashes, killed, dispatches, lastFail, out, keyvars, mediavars>>

\* lines 1176-1190, run by main before its first await (line 1199): the tasks
\* created at lines 1165-1173 have not run yet
StartupScanOf(S) ==
    /\ wpc = "startup"
    /\ \E s \in Orders(S) : queue' = AddAll(queue, s)
    /\ wpc' = "poll"
    /\ faults + Cardinality(Files \ S) <= MaxFaults
    /\ faults' = faults + Cardinality(Files \ S)
    /\ UNCHANGED <<fs, assets, jobs, cur, pf, crashes, killed, dispatches, lastFail, out, keyvars, mediavars>>

StartupScan == StartupScanOf(Files)

\* an insert of the startup scan raises: it is logged and the file skipped
StartupScanError == \E S \in (SUBSET Files) \ {Files} : StartupScanOf(S)

(* ---------------------- process_queue_worker -------------------------- *)
\* lines 1046-1052: one polling round selects its jobs; an empty round sleeps
Poll ==
    /\ wpc = "poll"
    /\ jobs' = get_pending_jobs(queue, PendingLimit) \o get_failed_jobs_for_retry(queue, FailedLimit)
    /\ wpc' = AfterJob(jobs')
    /\ UNCHANGED <<fs, queue, assets, cur, pf, faults, crashes, killed, dispatches, lastFail, out, keyvars, mediavars>>

\* a select of the round raises: the round ends in one of the outer handlers
PollError ==
    /\ wpc = "poll"
    /\ faults < MaxFaults
    /\ faults' = faults + 1
    /\ UNCHANGED <<fs, queue, assets, wpc, jobs, cur, pf, crashes, killed, dispatches, lastFail, out, keyvars, mediavars>>

\* lines 1063-1066
JobFileNotFound ==
    /\ wpc = "job" /\ jobs # <<>>
    /\ ~Exists(Head(jobs).path)
    /\ queue' = update_queue_status(queue, Head(jobs).path, "failed", Msg("File not found"))
    /\ lastFail' = AttemptFailed(lastFail, Head(jobs).path)
    /\ jobs' = Tail(jobs)
    /\ wpc' = AfterJob(jobs')
    /\ UNCHANGED <<fs, assets, cur, pf, faults, crashes, killed, dispatches, out, keyvars, mediavars>>

\* lines 1069-1076: mark_job_as_processing, then process_file is entered
Dispatch ==
    /\ wpc = "job" /\ jobs # <<>>
    /\ Exists(Head(jobs).path)
    /\ queue' = mark_job_as_processing(queue, Head(jobs).path)
    /\ cur' = Head(jobs)
    /\ jobs' = Tail(jobs)
    /\ wpc' = "pf_update"
    /\ UNCHANGED <<fs, assets, pf, faults, crashes, killed, lastFail, out, keyvars, mediavars>>

JobDispatch == Dispatch /\ UNCHANGED dispatches

\* the same step, with the dispatch counted
JobDispatchCounted == Dispatch /\ dispatches' = Bump(dispatches, Head(jobs).path)

\* lines 1078-1081: the catalog call of the loop body raises a database error
JobDbError ==
    /\ wpc = "job" /\ jobs # <<>>
    /\ faults < MaxFaults
    /\ faults' = faults + 1
    /\ jobs' = <<>>
    /\ wpc' = "poll"
    /\ UNCHANGED <<fs, queue, assets, cur, pf, crashes, killed, dispatches, lastFail, out, keyvars, mediavars>>

\* lines 1083-1093: it raises another exception (a PoolError, or an
\* AttributeError on a pool torn down by the observer thread); limit bounds the
\* exceptions injected
JobOtherErrorB(limit) ==
    /\ wpc = "job" /\ jobs # <<>>
    /\ \E ok \in BOOLEAN :
          /\ faults + (IF ok THEN 1 ELSE 2) <= limit
          /\ faults' = faults + (IF ok THEN 1 ELSE 2)
          /\ queue' = RetryHandler(queue, Head(jobs), ok)
    /\ jobs' = Tail(jobs)
    /\ wpc' = AfterJob(jobs')
    /\ UNCHANGED <<fs, assets, cur, pf, crashes, killed, dispatches, lastFail, out, keyvars, mediavars>>

JobOtherError == JobOtherErrorB(MaxFaults)

(* ------------------------- process_file ------------------------------- *)
Return ==
    /\ wpc' = AfterJob(jobs)
    /\ cur' = NoJob
    /\ pf' = NoPf
    /\ out' = NoOut
    /\ UNCHANGED jobs

\* line 464
PfUpdate ==
    /\ wpc = "pf_update"
    /\ queue' = update_queue_status(queue, cur.path, "processing", NoMsg)
    /\ wpc' = "pf_dup"
    /\ UNCHANGED <<fs, assets, jobs, cur, pf, faults, crashes, killed, dispatches, lastFail, out, keyvars, mediavars>>

\* variant: the transformer runs before the duplicate lookup
PfCheckDuplicateLate ==
    /\ wpc = "pf_dup"
    /\ out' = Transform(FileTypeOf(cur.path), out, Normal)
    /\ LET h == calculate_file_hash(fs[cur.path])
           d == check_duplicate_by_hash(assets, h)
       IN  IF d # {}
           THEN /\ \E m \in d : pf' = [pf EXCEPT !.file_hash = h, !.duplicate = m.id]
                /\ wpc' = "pf_dup_done"
           ELSE /\ pf' = [pf EXCEPT !.file_hash = h]
                /\ wpc' = "pf_key"
    /\ UNCHANGED <<fs, queue, assets, jobs, cur, faults, crashes, killed, dispatches, lastFail, keyvars, mediavars>>

\* lines 467-472
PfCheckDuplicate ==
    /\ wpc = "pf_dup"
    /\ LET h == calculate_file_hash(fs[cur.path])
           d == check_duplicate_by_hash(assets, h)
       IN  IF d # {}
           THEN /\ \E m \in d : pf' = [pf EXCEPT !.file_hash = h, !.duplicate = m.id]
                /\ wpc' = "pf_dup_done"
           ELSE /\ pf' = [pf EXCEPT !.file_hash = h]
                /\ wpc' = "pf_key"
    /\ UNCHANGED <<fs, queue, assets, jobs, cur, faults, crashes, killed, dispatches, lastFail, out, keyvars, mediavars>>

\* line 475
PfDuplicateCompleted ==
    /\ wpc = "pf_dup_done"
    /\ queue' = update_queue_status(queue, cur.path, "completed", DuplicateNote(pf.duplicate))
    /\ wpc' = "pf_dup_unlink"
    /\ UNCHANGED <<fs, assets, jobs, cur, pf, faults, crashes, killed, dispatches, lastFail, out, keyvars, mediavars>>

\* lines 476-478
PfDuplicateUnlink ==
    /\ wpc = "pf_dup_unlink"
    /\ fs' = [fs EXCEPT ![cur.path] = NoFile]
    /\ Return
    /\ UNCHANGED <<queue, assets, faults, crashes, killed, dispatches, lastFail, keyvars, mediavars>>

\* lines 481-487
PfKey ==
    /\ wpc = "pf_key"
    /\ pf' = [pf EXCEPT !.file_id = generate_file_id(UsedIds)]
    /\ wpc' = "pf_transform"
    /\ UNCHANGED <<fs, queue, assets, jobs, cur, faults, crashes, killed, dispatches, lastFail, out, keyvars, mediavars>>

\* lines 490-498: process_image or process_video returns
PfTransform ==
    /\ wpc = "pf_transform"
    /\ fs[cur.path] # EmptyContent
    /\ out' = Transform(FileTypeOf(cur.path), out, Normal)
    /\ wpc' = "pf_keycheck"
    /\ UNCHANGED <<fs, queue, assets, jobs, cur, pf, faults, crashes, killed, dispatches, lastFail, keyvars, mediavars>>

\* it returns although a tool left an empty artifact or an encryption raised
PfTransformDegraded ==
    /\ wpc = "pf_transform"
    /\ fs[cur.path] # EmptyContent
    /\ \E o \in Outcomes \ {Normal} :
          /\ faults + Cost(o) <= MaxFaults
          /\ faults' = faults + Cost(o)
          /\ out' = Transform(FileTypeOf(cur.path), out, o)
    /\ wpc' = "pf_keycheck"
    /\ UNCHANGED <<fs, queue, assets, jobs, cur, pf, crashes, killed, dispatches, lastFail, keyvars, mediavars>>

\* the transformer raises on a 0-byte input
PfTransformEmpty ==
    /\ wpc = "pf_transform"
    /\ fs[cur.path] = EmptyContent
    /\ pf' = [pf EXCEPT !.exc = "error"]
    /\ wpc' = "pf_except"
    /\ UNCHANGED <<fs, queue, assets, jobs, cur, faults, crashes, killed, dispatches, lastFail, out, keyvars, mediavars>>

\* a transient tool failure: a non-zero encoder exit, a disk write error
PfTransformError ==
    /\ wpc = "pf_transform"
    /\ fs[cur.path] # EmptyContent
    /\ faults < MaxFaults
    /\ faults' = faults + 1
    /\ pf' = [pf EXCEPT !.exc = "error"]
    /\ wpc' = "pf_except"
    /\ UNCHANGED <<fs, queue, assets, jobs, cur, crashes, killed, dispatches, lastFail, out, keyvars, mediavars>>

\* lines 501-507
PfKeyCheck ==
    /\ wpc = "pf_keycheck"
    /\ wpc' = "pf_save"
    /\ UNCHANGED <<fs, queue, assets, jobs, cur, pf, faults, crashes, killed, dispatches, lastFail, out, keyvars, mediavars>>

\* lines 510-522
PfSave ==
    /\ wpc = "pf_save"
    /\ assets' = save_media_metadata(assets,
                    [id |-> pf.file_id, file_hash |-> pf.file_hash,
                     file_type |-> FileTypeOf(cur.path), original_name |-> cur.path])
    /\ wpc' = "pf_complete"
    /\ UNCHANGED <<fs, queue, jobs, cur, pf, faults, crashes, killed, dispatches, lastFail, out, keyvars, mediavars>>

\* line 525
PfCompleted ==
    /\ wpc = "pf_complete"
    /\ queue' = update_queue_status(queue, cur.path, "completed", NoMsg)
    /\ wpc' = "pf_unlink"
    /\ UNCHANGED <<fs, assets, jobs, cur, pf, faults, crashes, killed, dispatches, lastFail, out, keyvars, mediavars>>

\* lines 528-529
PfUnlink ==
    /\ wpc = "pf_unlink"
    /\ fs' = [fs EXCEPT ![cur.path] = NoFile]
    /\ Return
    /\ UNCHANGED <<queue, assets, faults, crashes, killed, dispatches, lastFail, keyvars, mediavars>>

PfCatalogCalls == {"pf_update", "pf_dup", "pf_dup_done", "pf_key", "pf_keycheck", "pf_save", "pf_complete"}

\* a catalog call of process_file raises; "except Exception" (line 531) catches it
PfCatalogError ==
    /\ wpc \in PfCatalogCalls
    /\ faults < MaxFaults
    /\ faults' = faults + 1
    /\ \E e \in {"database error", "error"} : pf' = [pf EXCEPT !.exc = e]
    /\ wpc' = "pf_except"
    /\ UNCHANGED <<fs, queue, assets, jobs, cur, crashes, killed, dispatches, lastFail, out, keyvars, mediavars>>

\* line 533
PfExcept ==
    /\ wpc = "pf_except"
    /\ queue' = update_queue_status(queue, cur.path, "failed", StrOf(pf.exc))
    /\ lastFail' = AttemptFailed(lastFail, cur.path)
    /\ Return
    /\ UNCHANGED <<fs, assets, faults, crashes, killed, dispatches, keyvars, mediavars>>

\* line 533 raises a database error: it leaves process_file and reaches line 1078
PfExceptDbError ==
    /\ wpc = "pf_except"
    /\ faults < MaxFaults
    /\ faults' = faults + 1
    /\ lastFail' = AttemptFailed(lastFail, cur.path)
    /\ jobs' = <<>>
    /\ wpc' = "poll"
    /\ cur' = NoJob
    /\ pf' = NoPf
    /\ out' = NoOut
    /\ UNCHANGED <<fs, queue, assets, crashes, killed, dispatches, keyvars, mediavars>>

\* line 533 raises another exception: it reaches line 1083
PfExceptOtherErrorB(limit) ==
    /\ wpc = "pf_except"
    /\ \E ok \in BOOLEAN :
          /\ faults + (IF ok THEN 1 ELSE 2) <= limit
          /\ faults' = faults + (IF ok THEN 1 ELSE 2)
          /\ queue' = RetryHandler(queue, cur, ok)
    /\ lastFail' = AttemptFailed(lastFail, cur.path)
    /\ Return
    /\ UNCHANGED <<fs, assets, crashes, killed, dispatches, keyvars, mediavars>>

PfExceptOtherError == PfExceptOtherErrorB(MaxFaults)

(* --------------------------- specifications --------------------------- *)
\* the steps of process_file when no catalog call raises and no tool fails transiently
ProcessFileSteps ==
    \/ PfUpdate \/ PfCheckDuplicate \/ PfDuplicateCompleted \/ PfDuplicateUnlink
    \/ PfKey \/ PfTransform \/ PfTransformEmpty \/ PfKeyCheck \/ PfSave
    \/ PfCompleted \/ PfUnlink \/ PfExcept

WorkerSteps == StartupScan \/ Poll \/ JobFileNotFound \/ JobDispatch \/ ProcessFileSteps

\* the steps in which an exception is injected
FaultSteps ==
    \/ StartupScanError \/ PollError \/ JobDbError \/ JobOtherError
    \/ PfTransformError \/ PfTransformDegraded \/ PfCatalogError \/ PfExceptDbError \/ PfExceptOtherError

Environment ==
    \/ \E p \in Paths, c \in Contents : DropFile(p, c)
    \/ \E p \in Paths : RemoveFile(p)
    \/ \E p \in Paths : WatcherCreated(p)
    \/ \E p \in Paths : ScanFile(p)
    \/ Tick

Next == Environment \/ WorkerSteps \/ FaultSteps \/ Crash

Spec == Init /\ [][Next]_vars

\* no fault and no kill; the event loop keeps running the worker, and time passes
FairNext == Environment \/ WorkerSteps

FairSpec == Init /\ [][FairNext]_vars /\ WF_vars(WorkerSteps) /\ WF_vars(Tick)

\* no fault, no kill and no watcher event: files arrive anywhere in the intake
\* tree, and the scanner task runs whenever the worker sleeps
ScanEnvironment ==
    \/ \E p \in AllPaths, c \in Contents : DropFile(p, c)
    \/ \E p \in Paths : RemoveFile(p)
    \/ \E p \in AllPaths : ScanFile(p)
    \/ Tick

ScanNext == ScanEnvironment \/ WorkerSteps

ScanSpec ==
    /\ Init /\ [][ScanNext]_vars
    /\ WF_vars(WorkerSteps) /\ WF_vars(Tick)
    /\ \A p \in AllPaths : SF_vars(ScanFile(p))

\* no fault and no kill, every dispatch counted
CountedSteps == StartupScan \/ Poll \/ JobFileNotFound \/ JobDispatchCounted \/ ProcessFileSteps

RetryNext == Environment \/ CountedSteps

RetrySpec == Init /\ [][RetryNext]_vars

\* no kill; the only exceptions are those that reach the retry handler
RetryHandlerNext ==
    \/ Environment \/ WorkerSteps
    \/ JobOtherErrorB(MaxOtherErrors) \/ PfExceptOtherErrorB(MaxOtherErrors)

RetryHandlerSpec == Init /\ [][RetryHandlerNext]_vars

(* encrypt_file on its own: every state of the plaintext file and of a stale
   .enc file, with and without an exception in the try block *)
EncryptInputs ==
    {d \in [FileNames -> FileStates] :
        /\ \A n \in {"main", "thumb", "preview"} : d[n] \in {"none", "empty", "data"}
        /\ \A n \in {"stream", "key_info", "non-existent"} : d[n] = "none"
        /\ \A n \in EncNames : d[n] \in {"none", "enc"}
        /\ d["non-existent.enc"] = "none"}

EncryptInit ==
    /\ KeyReady
    /\ MediaIdle
    /\ fs = [p \in AllPaths |-> NoFile]
    /\ queue = [p \in AllPaths |-> AbsentRow]
    /\ assets = {}
    /\ wpc = "encrypt"
    /\ jobs = <<>>
    /\ cur = NoJob
    /\ pf = NoPf
    /\ faults = 0
    /\ crashes = 0
    /\ killed = {}
    /\ dispatches = [p \in Paths |-> 0]
    /\ lastFail = [p \in Paths |-> NULL]
    /\ out \in EncryptInputs

Encrypt(n, raises) ==
    /\ wpc = "encrypt"
    /\ out' = encrypt_file(out, n, raises)
    /\ UNCHANGED <<fs, queue, assets, wpc, jobs, cur, pf, faults, crashes, killed, dispatches, lastFail, keyvars, mediavars>>

EncryptNext == \E n \in {"main", "thumb", "preview"}, raises \in BOOLEAN : Encrypt(n, raises)

EncryptSpec == EncryptInit /\ [][EncryptNext]_vars

(* get_or_create_encryption_key and the video encoder, in processes that
   start with an empty encryption_keys table and no key file *)
KeyInit ==
    /\ MediaIdle
    /\ keys = {}
    /\ keyfile = NoKeyFile
    /\ kpc = [p \in Procs |-> "call"]
    /\ kkey = [p \in Procs |-> 0]
    /\ kjob = [p \in Procs |-> "init"]
    /\ kfaults = 0
    /\ fs = [p \in AllPaths |-> NoFile]
    /\ queue = [p \in AllPaths |-> AbsentRow]
    /\ assets = {}
    /\ wpc = "startup"
    /\ jobs = <<>>
    /\ cur = NoJob
    /\ pf = NoPf
    /\ faults = 0
    /\ crashes = 0
    /\ killed = {}
    /\ dispatches = [p \in Paths |-> 0]
    /\ lastFail = [p \in Paths |-> NULL]
    /\ out = NoOut

\* lines 261-269: SELECT ... WHERE is_active = true LIMIT 1
KeySelect(p) ==
    /\ kpc[p] = "call"
    /\ IF ActiveKeys(keys) # {}
       THEN \E k \in ActiveKeys(keys) :
               /\ kkey' = [kkey EXCEPT ![p] = k.key_value]
               /\ kpc' = [kpc EXCEPT ![p] = "open"]
       ELSE /\ kpc' = [kpc EXCEPT ![p] = "insert"]
            /\ UNCHANGED kkey
    /\ UNCHANGED <<keys, keyfile, kjob, kfaults, svcvars, mediavars>>

\* lines 273-293: INSERT, commit, verification SELECT
KeyInsert(p) ==
    /\ kpc[p] = "insert"
    /\ LET n == Cardinality(keys) + 1
       IN  /\ keys' = InsertKeyRow(keys, n)
           /\ kkey' = [kkey EXCEPT ![p] = n]
    /\ kpc' = [kpc EXCEPT ![p] = "open"]
    /\ UNCHANGED <<keyfile, kjob, kfaults, svcvars, mediavars>>

\* lines 295-301: the INSERT or the commit raises
KeyInsertError(p) ==
    /\ kpc[p] = "insert"
    /\ kfaults < MaxKeyFaults
    /\ kfaults' = kfaults + 1
    /\ kpc' = [kpc EXCEPT ![p] = "reselect"]
    /\ UNCHANGED <<keys, keyfile, kkey, kjob, svcvars, mediavars>>

\* lines 303-305: the SELECT again; with no row the call raises, MediaProcessor()
\* fails and the service is started again
KeyReselect(p) ==
    /\ kpc[p] = "reselect"
    /\ IF ActiveKeys(keys) # {}
       THEN \E k \in ActiveKeys(keys) :
               /\ kkey' = [kkey EXCEPT ![p] = k.key_value]
               /\ kpc' = [kpc EXCEPT ![p] = "open"]
       ELSE /\ kpc' = [kpc EXCEPT ![p] = "call"]
            /\ UNCHANGED kkey
    /\ UNCHANGED <<keys, keyfile, kjob, kfaults, svcvars, mediavars>>

\* line 318: open(key_path, 'wb') creates the file or truncates it
KeyOpen(p) ==
    /\ kpc[p] = "open"
    /\ keyfile' = Truncated
    /\ kpc' = [kpc EXCEPT ![p] = "write"]
    /\ UNCHANGED <<keys, kkey, kjob, kfaults, svcvars, mediavars>>

\* lines 319, 312: f.write(key_bytes), close, return key; a video job goes on
\* to the encoder (lines 489-498, 727)
KeyWrite(p) ==
    /\ kpc[p] = "write"
    /\ keyfile' = KeyBytes(kkey[p])
    /\ kpc' = [kpc EXCEPT ![p] = IF kjob[p] = "video" THEN "ffmpeg" ELSE "idle"]
    /\ UNCHANGED <<keys, kkey, kjob, kfaults, svcvars, mediavars>>

\* line 486: a job calls get_or_create_encryption_key
KeyJobStart(p, ft) ==
    /\ kpc[p] = "idle"
    /\ kjob' = [kjob EXCEPT ![p] = ft]
    /\ kpc' = [kpc EXCEPT ![p] = "call"]
    /\ UNCHANGED <<keys, keyfile, kkey, kfaults, svcvars, mediavars>>

\* line 727: subprocess.run starts ffmpeg with -hls_key_info_file
EncoderStart(p) ==
    /\ kpc[p] = "ffmpeg"
    /\ kpc' = [kpc EXCEPT ![p] = "encoding"]
    /\ UNCHANGED <<keys, keyfile, kkey, kjob, kfaults, svcvars, mediavars>>

\* line 727: ffmpeg exits, subprocess.run returns
EncoderExit(p) ==
    /\ kpc[p] = "encoding"
    /\ kpc' = [kpc EXCEPT ![p] = "idle"]
    /\ UNCHANGED <<keys, keyfile, kkey, kjob, kfaults, svcvars, mediavars>>

KeyNext ==
    \E p \in Procs :
       \/ KeySelect(p)
       \/ KeyInsert(p)
       \/ KeyInsertError(p)
       \/ KeyReselect(p)
       \/ KeyOpen(p)
       \/ KeyWrite(p)
       \/ \E ft \in {"image", "video"} : KeyJobStart(p, ft)
       \/ EncoderStart(p)
       \/ EncoderExit(p)

KeySpec == KeyInit /\ [][KeyNext]_vars

\* the service before its first step, with the key store ready
ServiceInit ==
    /\ KeyReady
    /\ fs = [p \in AllPaths |-> NoFile]
    /\ queue = [p \in AllPaths |-> AbsentRow]
    /\ assets = {}
    /\ wpc = "startup"
    /\ jobs = <<>>
    /\ cur = NoJob
    /\ pf = NoPf
    /\ faults = 0
    /\ crashes = 0
    /\ killed = {}
    /\ dispatches = [p \in Paths |-> 0]
    /\ lastFail = [p \in Paths |-> NULL]
    /\ out = NoOut

(* process_image on its own: the size of the main image for every input size *)
ImageInit ==
    /\ ServiceInit
    /\ \E w \in ImageDims(max_width), h \in ImageDims(max_height) :
          img = [size |-> <<w, h>>, saved |-> NoSize]
    /\ vid = NoVideo
    /\ plain = NoPlain
    /\ entry = NoEntry
    /\ vjob = NoVideoJob
    /\ tjob = NoThumbJob
    /\ wloop = NoLoop
    /\ pool = NoPool

\* lines 551-563: original size read, resize if needed, save, width, height = img.size
SaveImage ==
    /\ img.size # NoSize
    /\ img.saved = NoSize
    /\ img' = [img EXCEPT !.saved = ImageSize(img.size[1], img.size[2])]
    /\ UNCHANGED <<svcvars, keyvars, vid, plain, entry, vjob, tjob, wloop, pool>>

ImageSpec == ImageInit /\ [][SaveImage]_vars

(* process_video on its own: the sizes of the stream and of the row for every source size *)
VideoInit ==
    /\ ServiceInit
    /\ img = NoImage
    /\ \E iw \in VideoDims(StreamMaxWidth), ih \in VideoDims(StreamMaxHeight) :
          vid = [size |-> <<iw, ih>>, stream |-> NoSize, recorded |-> NoSize]
    /\ plain = NoPlain
    /\ entry = NoEntry
    /\ vjob = NoVideoJob
    /\ tjob = NoThumbJob
    /\ wloop = NoLoop
    /\ pool = NoPool

\* lines 708-727: ffmpeg emits the stream in the size of the scale filter
EncodeStream ==
    /\ vid.size # NoSize
    /\ vid.stream = NoSize
    /\ vid' = [vid EXCEPT !.stream = StreamSize(vid.size[1], vid.size[2])]
    /\ UNCHANGED <<svcvars, keyvars, img, plain, entry, vjob, tjob, wloop, pool>>

\* lines 692, 742-750: the dict returned carries width, height of get_video_info
ReturnVideo ==
    /\ vid.stream # NoSize
    /\ vid.recorded = NoSize
    /\ vid' = [vid EXCEPT !.recorded = vid.size]
    /\ UNCHANGED <<svcvars, keyvars, img, plain, entry, vjob, tjob, wloop, pool>>

VideoSizeNext == EncodeStream \/ ReturnVideo

VideoSizeSpec == VideoInit /\ [][VideoSizeNext]_vars

(* the try block of encrypt_file on its own: every plaintext length *)
CipherInit ==
    /\ ServiceInit
    /\ img = NoImage
    /\ vid = NoVideo
    /\ \E n \in 1..MaxPlainLen, b \in PlainBytes :
          plain = [text |-> [i \in 1..n |-> b], padded |-> <<>>, written |-> <<>>]
    /\ entry = NoEntry
    /\ vjob = NoVideoJob
    /\ tjob = NoThumbJob
    /\ wloop = NoLoop
    /\ pool = NoPool

\* lines 617-641: iv = os.urandom(16), pad, encrypt, write iv + ciphertext
EncryptPlain ==
    /\ plain.text # <<>>
    /\ plain.written = <<>>
    /\ \E b \in IvBytes :
          LET iv == [i \in 1..BlockSize |-> b]
              padded == Pad(plain.text)
          IN  plain' = [plain EXCEPT !.padded = padded,
                                     !.written = iv \o CbcEncrypt(KeyByte, iv, padded)]
    /\ UNCHANGED <<svcvars, keyvars, img, vid, entry, vjob, tjob, wloop, pool>>

CipherSpec == CipherInit /\ [][EncryptPlain]_vars

(* the service with process_video in its steps, and the tasks that share the
   event loop with the worker: scanner and database health monitor *)
InVideo(pc) == wpc = "pf_transform" /\ FileTypeOf(cur.path) = "video" /\ vjob.pc = pc

\* the worker coroutine is suspended at an await: asyncio.sleep of the worker
\* loop (lines 1098-1114) or "await thumbnail_task" (line 733)
LoopFree == wpc = "poll" \/ InVideo("await")

\* line 692: get_video_info (ffprobe, a blocking subprocess.run) returns
VideoProbe ==
    /\ InVideo("idle")
    /\ fs[cur.path] # EmptyContent
    /\ vjob' = [vjob EXCEPT !.pc = "probed", !.encoder = "off", !.thumb = "none"]
    /\ UNCHANGED <<svcvars, keyvars, img, vid, plain, entry, tjob, wloop, pool>>

\* line 698: create_key_info_file writes private/key_info_{video_id}.txt
VideoKeyInfo ==
    /\ InVideo("probed")
    /\ vjob' = [vjob EXCEPT !.pc = "key_info", !.key_info = TRUE]
    /\ UNCHANGED <<svcvars, keyvars, img, vid, plain, entry, tjob, wloop, pool>>

\* lines 701-706: asyncio.create_task schedules the thumbnail task; it has not run
VideoCreateTask ==
    /\ InVideo("key_info")
    /\ vjob' = [vjob EXCEPT !.pc = "task", !.thumb = "scheduled"]
    /\ UNCHANGED <<svcvars, keyvars, img, vid, plain, entry, tjob, wloop, pool>>

\* line 727: subprocess.run starts ffmpeg and blocks the calling thread
VideoEncoderStart ==
    /\ InVideo("task")
    /\ vjob' = [vjob EXCEPT !.pc = "encoding", !.encoder = "running"]
    /\ UNCHANGED <<svcvars, keyvars, img, vid, plain, entry, tjob, wloop, pool>>

\* line 727: ffmpeg exits, subprocess.run returns
VideoEncoderExit(rc) ==
    /\ InVideo("encoding")
    /\ vjob' = [vjob EXCEPT !.pc = "exited", !.encoder = rc]
    /\ UNCHANGED <<svcvars, keyvars, img, vid, plain, entry, tjob, wloop, pool>>

\* lines 729-730: a non-zero exit raises; process_file catches it at line 531
VideoEncoderFailed ==
    /\ InVideo("exited")
    /\ vjob.encoder = "nonzero"
    /\ vjob' = [vjob EXCEPT !.pc = "idle"]
    /\ pf' = [pf EXCEPT !.exc = "error"]
    /\ wpc' = "pf_except"
    /\ UNCHANGED <<fs, queue, assets, jobs, cur, faults, crashes, killed, dispatches, lastFail, out, keyvars, img, vid, plain, entry, tjob, wloop, pool>>

\* line 733: await thumbnail_task suspends process_video
VideoAwaitThumbnail ==
    /\ InVideo("exited")
    /\ vjob.encoder = "zero"
    /\ vjob' = [vjob EXCEPT !.pc = "await"]
    /\ UNCHANGED <<svcvars, keyvars, img, vid, plain, entry, tjob, wloop, pool>>

\* the event loop runs the first step of the task: to_thread hands
\* generate_animated_thumbnail to a worker thread
ThumbnailStart ==
    /\ LoopFree
    /\ vjob.thumb = "scheduled"
    /\ vjob' = [vjob EXCEPT !.thumb = "running"]
    /\ UNCHANGED <<svcvars, keyvars, img, vid, plain, entry, tjob, wloop, pool>>

\* the thread returns the two paths, or raises
ThumbnailExit(r) ==
    /\ vjob.thumb = "running"
    /\ vjob' = [vjob EXCEPT !.thumb = r]
    /\ UNCHANGED <<svcvars, keyvars, img, vid, plain, entry, tjob, wloop, pool>>

\* variant: process_video goes on without the result of the thumbnail task
VideoFinishEarly ==
    /\ InVideo("await")
    /\ out' = Transform("video", out, Normal)
    /\ vjob' = [vjob EXCEPT !.pc = "idle", !.key_info = FALSE]
    /\ wpc' = "pf_keycheck"
    /\ UNCHANGED <<fs, queue, assets, jobs, cur, pf, faults, crashes, killed, dispatches, lastFail, keyvars, img, vid, plain, entry, tjob, wloop, pool>>

\* lines 733-750: the task is done, the thumbnails are encrypted, the key-info
\* file is unlinked, process_video returns
VideoFinish ==
    /\ InVideo("await")
    /\ vjob.thumb = "done"
    /\ out' = Transform("video", out, Normal)
    /\ vjob' = [vjob EXCEPT !.pc = "idle", !.key_info = FALSE]
    /\ wpc' = "pf_keycheck"
    /\ UNCHANGED <<fs, queue, assets, jobs, cur, pf, faults, crashes, killed, dispatches, lastFail, keyvars, img, vid, plain, entry, tjob, wloop, pool>>

\* line 733: the await re-raises the exception of the thumbnail thread
VideoThumbnailFailed ==
    /\ InVideo("await")
    /\ vjob.thumb = "failed"
    /\ vjob' = [vjob EXCEPT !.pc = "idle"]
    /\ pf' = [pf EXCEPT !.exc = "error"]
    /\ wpc' = "pf_except"
    /\ UNCHANGED <<fs, queue, assets, jobs, cur, faults, crashes, killed, dispatches, lastFail, out, keyvars, img, vid, plain, entry, tjob, wloop, pool>>

\* lines 490-492: process_image, synchronous from start to end
ImageTransform == PfTransform /\ FileTypeOf(cur.path) = "image"

\* scan_for_new_files, one file of a pass (lines 993-1007): the task runs
\* when the event loop is free
ScannerStep(p) == LoopFree /\ ScanFile(p)

\* database_health_monitor, lines 1123-1132: one periodic check, run by the
\* event loop when it is free
HealthCheck ==
    /\ LoopFree
    /\ vjob' = [vjob EXCEPT !.checks = 1 - @]
    /\ UNCHANGED <<svcvars, keyvars, img, vid, plain, entry, tjob, wloop, pool>>

VideoSteps ==
    \/ VideoProbe \/ VideoKeyInfo \/ VideoCreateTask \/ VideoEncoderStart
    \/ \E rc \in {"zero", "nonzero"} : VideoEncoderExit(rc)
    \/ VideoEncoderFailed \/ VideoAwaitThumbnail
    \/ ThumbnailStart
    \/ \E r \in {"done", "failed"} : ThumbnailExit(r)
    \/ VideoFinish \/ VideoThumbnailFailed

VideoJobNext ==
    \/ \E p \in Paths, c \in Contents : DropFile(p, c)
    \/ \E p \in Paths : RemoveFile(p)
    \/ \E p \in Paths : WatcherCreated(p)
    \/ \E p \in Paths : ScannerStep(p)
    \/ HealthCheck
    \/ Tick
    \/ StartupScan \/ Poll \/ JobFileNotFound \/ JobDispatch
    \/ PfUpdate \/ PfCheckDuplicate \/ PfDuplicateCompleted \/ PfDuplicateUnlink
    \/ PfKey \/ ImageTransform \/ PfTransformEmpty \/ PfKeyCheck \/ PfSave
    \/ PfCompleted \/ PfUnlink \/ PfExcept
    \/ VideoSteps

VideoJobSpec == Init /\ [][VideoJobNext]_vars

(* the catalog calls of the two threads on the shared connection pool *)
PoolInit ==
    /\ ServiceInit
    /\ img = NoImage
    /\ vid = NoVideo
    /\ plain = NoPlain
    /\ entry = NoEntry
    /\ vjob = NoVideoJob
    /\ tjob = NoThumbJob
    /\ wloop = NoLoop
    /\ pool = NoPool

PoolStep(new) ==
    /\ pool' = new
    /\ UNCHANGED <<svcvars, keyvars, img, vid, plain, entry, vjob, tjob, wloop>>

\* execute / fetch_one / fetch_all, lines 180-182: _get_connection is entered
DbCall(t) ==
    /\ pool.tpc[t] = "idle"
    /\ PoolStep([pool EXCEPT !.tpc[t] = "check", !.attempt[t] = 0])

\* lines 133-135: "if not self.connection_pool: self.connect()"
DbCheck(t) ==
    /\ pool.tpc[t] = "check"
    /\ PoolStep([pool EXCEPT !.tpc[t] = "getconn", !.ref = "open"])

\* line 137: self.connection_pool.getconn()
DbGetconn(t) ==
    /\ pool.tpc[t] = "getconn"
    /\ pool.ref = "open"
    /\ PoolStep([pool EXCEPT !.tpc[t] = "test", !.conn[t] = "open"])

\* line 137 with self.connection_pool = None: AttributeError, which the except
\* clause of line 145 does not catch; the call raises
DbGetconnNone(t) ==
    /\ pool.tpc[t] = "getconn"
    /\ pool.ref = "none"
    /\ PoolStep([pool EXCEPT !.tpc[t] = "idle"])

\* lines 140-143: SELECT 1 succeeds, the connection is returned to the caller
DbTestOk(t) ==
    /\ pool.tpc[t] = "test"
    /\ pool.conn[t] = "open"
    /\ PoolStep([pool EXCEPT !.tpc[t] = "use"])

\* lines 140-145: SELECT 1 raises, on a closed connection or on a server fault
DbTestFail(t) ==
    /\ pool.tpc[t] = "test"
    /\ \/ /\ pool.conn[t] = "closed"
          /\ PoolStep([pool EXCEPT !.tpc[t] = "teardown"])
       \/ /\ pool.conn[t] = "open"
          /\ pool.faults < MaxConnFaults
          /\ PoolStep([pool EXCEPT !.tpc[t] = "teardown", !.faults = @ + 1])

\* lines 148-153: closeall() closes every connection of the pool, borrowed
\* ones included, and the reference is set to None
DbTeardown(t) ==
    /\ pool.tpc[t] = "teardown"
    /\ LET closed == [u \in Threads |-> IF pool.conn[u] = "none" THEN "none" ELSE "closed"]
           torn == IF pool.ref = "open"
                   THEN [pool EXCEPT !.conn = [closed EXCEPT ![t] = "none"], !.ref = "none"]
                   ELSE [pool EXCEPT !.conn[t] = "none"]
       IN  PoolStep([torn EXCEPT !.tpc[t] = IF pool.attempt[t] < connection_max_retries - 1
                                            THEN "reconnect" ELSE "idle"])

\* lines 155-159: after time.sleep, self.connect() and the next attempt
DbReconnect(t) ==
    /\ pool.tpc[t] = "reconnect"
    /\ PoolStep([pool EXCEPT !.tpc[t] = "check", !.ref = "open", !.attempt[t] = @ + 1])

\* lines 183-185: cursor.execute(query) and commit on the borrowed connection
DbUse(t) ==
    /\ pool.tpc[t] = "use"
    /\ PoolStep([pool EXCEPT !.tpc[t] = "put"])

\* lines 194-195, 172-176: _put_connection
DbPut(t) ==
    /\ pool.tpc[t] = "put"
    /\ PoolStep([pool EXCEPT !.tpc[t] = "idle", !.conn[t] = "none"])

PoolNext ==
    \E t \in Threads :
       \/ DbCall(t) \/ DbCheck(t) \/ DbGetconn(t) \/ DbGetconnNone(t)
       \/ DbTestOk(t) \/ DbTestFail(t) \/ DbTeardown(t) \/ DbReconnect(t)
       \/ DbUse(t) \/ DbPut(t)

PoolSpec == PoolInit /\ [][PoolNext]_vars

(* the rounds of process_queue_worker on their own: how each ends, and its sleep *)
BackoffInit ==
    /\ ServiceInit
    /\ img = NoImage
    /\ vid = NoVideo
    /\ plain = NoPlain
    /\ entry = NoEntry
    /\ vjob = NoVideoJob
    /\ tjob = NoThumbJob
    /\ wloop = NoLoop
    /\ pool = NoPool

\* lines 1095-1098: the round ran to its end
RoundOk ==
    /\ wloop' = [NoLoop EXCEPT !.ended = "ok", !.slept = PollInterval]
    /\ UNCHANGED <<svcvars, keyvars, img, vid, plain, entry, vjob, tjob, pool>>

\* lines 1078-1081, then 1095-1098: a database error in the job loop breaks
\* out of the for loop; the round goes on after it
RoundJobDbError ==
    /\ wloop' = [NoLoop EXCEPT !.ended = "job_db", !.slept = PollInterval]
    /\ UNCHANGED <<svcvars, keyvars, img, vid, plain, entry, vjob, tjob, pool>>

\* lines 1100-1109: one of the two selects raised a database error
RoundDbError ==
    /\ wloop.streak < MaxStreak
    /\ LET k == wloop.consecutive_errors + 1
       IN  wloop' = [consecutive_errors |-> IF k >= max_consecutive_errors THEN 0 ELSE k,
                     ended |-> "db",
                     slept |-> IF k >= max_consecutive_errors THEN 60 ELSE 10 * k,
                     streak |-> wloop.streak + 1,
                     general_run |-> 0,
                     db_run |-> wloop.db_run + 1]
    /\ UNCHANGED <<svcvars, keyvars, img, vid, plain, entry, vjob, tjob, pool>>

\* lines 1111-1114: another exception left the round
RoundGeneralError ==
    /\ wloop.streak < MaxStreak
    /\ LET k == wloop.consecutive_errors + 1
       IN  wloop' = [consecutive_errors |-> k,
                     ended |-> "general",
                     slept |-> 10 * Min(k, 6),
                     streak |-> wloop.streak + 1,
                     general_run |-> wloop.general_run + 1,
                     db_run |-> 0]
    /\ UNCHANGED <<svcvars, keyvars, img, vid, plain, entry, vjob, tjob, pool>>

BackoffNext == RoundOk \/ RoundJobDbError \/ RoundDbError \/ RoundGeneralError

BackoffSpec == BackoffInit /\ [][BackoffNext]_vars

(* generate_animated_thumbnail on its own, for every outcome of its tool runs *)
Durations == {0, 50, 60, 300}

ThumbInit ==
    /\ ServiceInit
    /\ img = NoImage
    /\ vid = NoVideo
    /\ plain = NoPlain
    /\ entry = NoEntry
    /\ vjob = NoVideoJob
    /\ \E d \in Durations : tjob = [NoThumbJob EXCEPT !.pc = "thumbnail", !.duration = d]
    /\ wloop = NoLoop
    /\ pool = NoPool

Called(t, name, at) == Append(t.static_calls, [target |-> name, at |-> at])

\* lines 806-838: the animated thumbnail, and the static fallback
AnimatedThumbnail(rc, w, o) ==
    /\ tjob.pc = "thumbnail"
    /\ LET f == Written(tjob.thumbnail, w)
           ok == rc = 0 /\ Usable(f)
           start == start_time(tjob.duration)
       IN  tjob' = [tjob EXCEPT
                      !.pc = "preview",
                      !.animated_rc = rc,
                      !.animated_file = f,
                      !.animated_success = ok,
                      !.thumbnail = IF ok THEN f ELSE create_static_thumbnail(f, o),
                      !.static_calls = IF ok THEN @ ELSE Called(tjob, "thumbnail", start)]
    /\ UNCHANGED <<svcvars, keyvars, img, vid, plain, entry, vjob, wloop, pool>>

\* lines 841-873: the animated preview, the copy of the thumbnail, or the static preview
Preview(rc, w, o) ==
    /\ tjob.pc = "preview"
    /\ LET f == Written(tjob.preview, w)
           start == start_time(tjob.duration)
       IN  IF tjob.animated_success
           THEN tjob' = [tjob EXCEPT
                           !.pc = "validate_thumbnail",
                           !.preview_attempted = TRUE,
                           !.preview = IF rc = 0 THEN f
                                       ELSE IF Usable(tjob.thumbnail) THEN tjob.thumbnail
                                       ELSE create_static_thumbnail(f, o),
                           !.static_calls = IF rc = 0 \/ Usable(tjob.thumbnail) THEN @
                                            ELSE Called(tjob, "preview", start + 5)]
           ELSE tjob' = [tjob EXCEPT
                           !.pc = "validate_thumbnail",
                           !.preview = create_static_thumbnail(tjob.preview, o),
                           !.static_calls = Called(tjob, "preview", start + 5)]
    /\ UNCHANGED <<svcvars, keyvars, img, vid, plain, entry, vjob, wloop, pool>>

\* lines 876-882, one turn of the loop: a missing or too small file is made again
Validate(name, o) ==
    /\ tjob.pc = "validate_" \o name
    /\ LET f == tjob[name]
           again == ~f.exists \/ f.size < SizeThreshold
           start == start_time(tjob.duration)
       IN  tjob' = [tjob EXCEPT
                      !.pc = IF name = "thumbnail" THEN "validate_preview" ELSE "returned",
                      ![name] = IF again THEN create_static_thumbnail(f, o) ELSE f,
                      !.static_calls = IF again THEN Called(tjob, name, start) ELSE @]
    /\ UNCHANGED <<svcvars, keyvars, img, vid, plain, entry, vjob, wloop, pool>>

ThumbNext ==
    \E rc \in {0, 1}, w \in ToolWrites, o \in StaticOutcomes :
       \/ AnimatedThumbnail(rc, w, o)
       \/ Preview(rc, w, o)
       \/ Validate("thumbnail", o)
       \/ Validate("preview", o)

ThumbSpec == ThumbInit /\ [][ThumbNext]_vars

(* intake discovery and the choice of the transformer, for every kind of entry and suffix *)
IntakeInit ==
    /\ ServiceInit
    /\ img = NoImage
    /\ vid = NoVideo
    /\ plain = NoPlain
    /\ \E k \in {"file", "dir"}, sfx \in Suffixes :
          entry = [NoEntry EXCEPT !.kind = k, !.suffix = sfx]
    /\ vjob = NoVideoJob
    /\ tjob = NoThumbJob
    /\ wloop = NoLoop
    /\ pool = NoPool

\* a discoverer looks at the entry and inserts a row if it takes it
\* (ON CONFLICT DO NOTHING: an existing row stays)
Discover(who, ft) ==
    /\ entry.kind # "none"
    /\ who \notin entry.seen
    /\ entry' = [entry EXCEPT !.seen = @ \cup {who},
                              !.file_type = IF entry.file_type = "none" THEN ft ELSE @]
    /\ UNCHANGED <<svcvars, keyvars, img, vid, plain, vjob, tjob, wloop, pool>>

EntryWatcher == Discover("watcher", WatcherType(entry))
EntryStartupScan == Discover("startup", ScanType(entry))
EntryScanner == Discover("scanner", ScanType(entry))

\* the worker dispatches the row: process_file picks the transformer
EntryTransform ==
    /\ entry.file_type # "none"
    /\ entry.transformer = "none"
    /\ entry' = [entry EXCEPT !.transformer = TransformerOf(entry)]
    /\ UNCHANGED <<svcvars, keyvars, img, vid, plain, vjob, tjob, wloop, pool>>

IntakeNext == EntryWatcher \/ EntryStartupScan \/ EntryScanner \/ EntryTransform

IntakeSpec == IntakeInit /\ [][IntakeNext]_vars

(* ------------------------------ properties ---------------------------- *)
PfBeforeSave == {"pf_transform", "pf_keycheck", "pf_save"}

\* C1: the catalog holds at most one MediaAsset per file_hash; a job whose
\* bytes already have a MediaAsset never reaches the transform and save steps;
\* when the duplicate branch has written the row, the row is completed and its
\* error_message names an asset that carries the hash of the file's bytes; and
\* every duplicate note on a completed row names an asset of the catalog.
C1_OneAssetPerHash ==
    /\ \A a, b \in assets : a.file_hash = b.file_hash => a = b
    /\ wpc \in PfBeforeSave => \A m \in assets : m.file_hash # pf.file_hash
    /\ wpc = "pf_dup_unlink" =>
          /\ queue[cur.path].status = "completed"
          /\ queue[cur.path].error_message = DuplicateNote(pf.duplicate)
          /\ \E m \in assets : /\ m.id = pf.duplicate
                               /\ m.file_hash = calculate_file_hash(fs[cur.path])
    /\ \A p \in Paths :
          queue[p].status = "completed" /\ queue[p].error_message # NoMsg =>
             \E m \in assets : queue[p].error_message = DuplicateNote(m.id)

\* the same bytes were ingested under two paths: one asset, and the later job
\* completed as a duplicate of it
C1_Witness ==
    /\ Cardinality(assets) = 1
    /\ \E p \in Paths, m \in assets :
          /\ m.original_name # p
          /\ queue[p].status = "completed"
          /\ queue[p].error_message = DuplicateNote(m.id)
          /\ queue[m.original_name].status = "completed"

DiscoverySteps ==
    \/ StartupScan \/ StartupScanError
    \/ \E p \in Paths : WatcherCreated(p)
    \/ \E p \in Paths : ScanFile(p)

\* C2: a step of the watcher, of the startup scan or of the periodic scanner
\* leaves the row of every path that already has one exactly as it was (status,
\* retry_count, timestamps and all other columns); the table is keyed by
\* file_path, so the path keeps its one row.
C2_EnqueueIdempotent ==
    [][DiscoverySteps =>
          \A p \in Paths : queue[p].status # "absent" => queue'[p] = queue[p]]_vars

\* after a kill in the middle of a job the startup scan has met the row of the
\* file, still processing
C2_Witness ==
    /\ crashes = 1 /\ faults = 0 /\ wpc = "poll"
    /\ \E p \in Paths :
          /\ Exists(p)
          /\ queue[p].status = "processing"
          /\ ~IsNull(queue[p].started_at)

\* C3: in every state, a queued row has started_at NULL, a processing row has
\* started_at set and completed_at NULL, and a completed or failed row has
\* completed_at set.
C3_StatusTimestamps ==
    \A p \in Paths :
       /\ queue[p].status = "queued" => IsNull(queue[p].started_at)
       /\ queue[p].status = "processing" =>
             ~IsNull(queue[p].started_at) /\ IsNull(queue[p].completed_at)
       /\ queue[p].status \in {"completed", "failed"} => ~IsNull(queue[p].completed_at)

\* C4: a job none of whose attempts succeeded has been handed to process_file
\* at most max_retries times.
C4_DispatchesBounded ==
    \A p \in Paths :
       queue[p].status \notin {"absent", "completed"} =>
          dispatches[p] <= queue[p].max_retries

\* C5: a job for a 0-byte file that stays in the intake directory eventually
\* rests in status failed with retry_count >= max_retries.
C5_EmptyFileTerminallyFailed ==
    \A p \in Paths :
       (fs[p] = EmptyContent /\ queue[p].status \in {"queued", "processing", "failed"})
          ~> \/ fs[p] # EmptyContent
             \/ /\ queue[p].status = "failed"
                /\ queue[p].retry_count >= queue[p].max_retries

\* C6: when a job is handed to process_file, none of its attempts has failed
\* yet or the 5 minute interval has passed since its last failed attempt
\* ended (the moment line 533 writes, or tries to write, completed_at).
C6_CooldownBeforeRedispatch ==
    wpc = "pf_update" =>
       IsNull(lastFail[cur.path]) \/ OlderThanCooldown(lastFail[cur.path])

\* C7: retry_count <= max_retries for every row, in every state.
C7_RetryCountBounded ==
    \A p \in Paths : queue[p].retry_count <= queue[p].max_retries

\* the retry handler has incremented a row up to the last value its guard admits
C7_Witness ==
    \E p \in Paths :
       /\ queue[p].status = "queued"
       /\ queue[p].retry_count = queue[p].max_retries - 1

\* C8: no row carries the text of a database error in error_message (the row
\* of a job driven while the database failed is not marked failed by it).
C8_DbErrorNotRecorded ==
    \A p \in Paths : queue[p].error_message # StrOf("database error")

\* C9: as long as the process was not killed, every row that a polling round
\* finds in status processing is one its two selects return: a job left behind
\* by a database failure is selected again.  (Only the worker moves a row out
\* of processing, so a row the selects do not return stays where it is.)
C9_LeftJobSelectedAgain ==
    (crashes = 0 /\ wpc = "poll") =>
       \A p \in Paths :
          queue[p].status = "processing" => PendingTest(queue, p) \/ FailedTest(queue, p)

\* C10: no MediaAsset carries the file id of an attempt that was killed before
\* save_media_metadata committed, and while an attempt is before that commit
\* no MediaAsset carries its file id.
C10_NoAssetOfKilledAttempt ==
    /\ \A m \in assets : m.id \notin killed
    /\ wpc \in PfBeforeSave => \A m \in assets : m.id # pf.file_id

\* an attempt was killed between generate_file_id and the insert, and the
\* restarted service has catalogued a file
C10_Witness ==
    /\ killed # {}
    /\ crashes = 1
    /\ assets # {}
    /\ wpc = "poll"
    /\ \E p \in Paths : queue[p].status = "processing"

\* C11: after a kill in the middle of a job and the restart, the row the job
\* left in status processing is one the selects of a polling round return, so
\* that the restarted service dispatches the job again.  (Only the worker moves
\* a row out of processing: a row the selects do not return never reaches
\* completed or failed.)
C11_KilledJobDispatchedAgain ==
    (crashes > 0 /\ faults = 0 /\ wpc = "poll") =>
       \A p \in Paths :
          (queue[p].status = "processing" /\ Exists(p)) =>
             PendingTest(queue, p) \/ FailedTest(queue, p)

PfBeforeTransform == {"pf_update", "pf_dup", "pf_dup_done", "pf_dup_unlink", "pf_key"}
PfDuplicateBranch == {"pf_dup_done", "pf_dup_unlink"}

\* C12: within a job, no output file is written before the duplicate lookup
\* has run; when the MediaAsset row has been inserted, the files it records
\* (main artifact, thumbnail, preview for a video) exist; a row is completed
\* only if the catalog holds the asset of its file or the asset its duplicate
\* note names; and the worker removes the intake file only in a step taken
\* with the row completed and that asset written.
C12_StepsOrdered ==
    /\ [](wpc \in PfBeforeTransform => out = NoOut)
    /\ [](wpc = "pf_complete" =>
            \A n \in RecordedPaths(FileTypeOf(cur.path)) : out[n] # "none")
    /\ [](\A p \in Paths : queue[p].status = "completed" =>
            \E m \in assets : \/ m.original_name = p
                              \/ queue[p].error_message = DuplicateNote(m.id))
    /\ [][(cur # NoJob /\ fs[cur.path] # NoFile /\ fs'[cur.path] = NoFile) =>
            /\ queue[cur.path].status = "completed"
            /\ \E m \in assets : \/ m.id = pf.file_id
                                 \/ m.id = pf.duplicate]_vars

\* C13: while a job is in the duplicate branch it has written no file under
\* the assets tree or the private directory, and a step of the branch inserts
\* no MediaAsset row and changes no file but the intake file, which the last
\* step removes.
C13_DuplicateWritesNothing ==
    /\ [](wpc \in PfDuplicateBranch => out = NoOut)
    /\ [][(wpc \in PfDuplicateBranch /\ wpc' # wpc) =>
            /\ assets' = assets
            /\ out' = out
            /\ \A p \in Paths :
                  \/ fs'[p] = fs[p]
                  \/ p = cur.path /\ wpc = "pf_dup_unlink" /\ fs'[p] = NoFile]_vars

\* a job has gone through the duplicate branch: row completed with the note, intake file gone
C13_Witness ==
    /\ wpc \in {"poll", "job"}
    /\ out = NoOut
    /\ \E p \in Paths, m \in assets :
          /\ queue[p].error_message = DuplicateNote(m.id)
          /\ queue[p].status = "completed"
          /\ fs[p] = NoFile

\* C14: when a MediaAsset row has just been inserted, a file exists at each
\* path the row records, also when an artifact handed to encrypt_file was
\* empty or its encryption raised.
C14_RecordedFilesExist ==
    wpc = "pf_complete" =>
       \A n \in RecordedPaths(FileTypeOf(cur.path)) : out[n] \in {"data", "enc", "placeholder"}

\* C15: a call encrypt_file(path) leaves an encrypted artifact at {path}.enc:
\* the ciphertext, or the placeholder when the plaintext file is missing or
\* empty or the encryption raises.
C15_ArtifactAtEncPath ==
    [][\A n \in {"main", "thumb", "preview"}, raises \in BOOLEAN :
          Encrypt(n, raises) =>
             out'[EncPath(n)] =
                IF out[n] \in {"none", "empty"} \/ raises THEN "placeholder" ELSE "enc"]_vars

\* get_or_create_encryption_key has returned in process p
KeyReturned(p) == kjob[p] # "init" \/ kpc[p] = "idle"

\* C16: once a call of get_or_create_encryption_key has returned, exactly one
\* row of encryption_keys has is_active = true, also when two processes call
\* it concurrently from an empty table.
C16_OneActiveKey ==
    (\E p \in Procs : KeyReturned(p)) => Cardinality(ActiveKeys(keys)) = 1

\* C17: whenever a video encoder is about to start or is running the key file
\* exists, and no step taken while a video encoder is running truncates or
\* rewrites the key file.
C17_KeyFileStableWhileEncoding ==
    /\ [](\A p \in Procs : kpc[p] \in {"ffmpeg", "encoding"} => keyfile.exists)
    /\ [][(\E p \in Procs : kpc[p] = "encoding") => keyfile' = keyfile]_vars

\* C18: until the startup scan has ended the worker has selected no job, and
\* the step that ends it and lets the worker poll for the first time has gone
\* through the whole intake directory: every eligible file has a row, except
\* at most one file for each insert that raised and was logged.
C18_ScanBeforeFirstPoll ==
    /\ [](wpc = "startup" => jobs = <<>> /\ cur = NoJob)
    /\ [][(wpc = "startup" /\ wpc' # "startup") =>
            /\ wpc' = "poll"
            /\ jobs' = <<>>
            /\ Cardinality({p \in Files : queue'[p].status = "absent"}) <= faults' - faults]_vars

\* the startup scan has enqueued every file of the directory and no job has been dispatched yet
C18_Witness ==
    /\ wpc = "poll"
    /\ crashes = 0
    /\ \A p \in Paths : Exists(p) /\ queue[p].status = "queued" /\ dispatches[p] = 0

\* on_created takes every file event below the intake directory (recursive=True)
WatcherAccepts(p) == p \in AllPaths

\* C19: with no watcher event delivered, every file that is in a location the
\* watcher accepts and has no queue row gets a row from the periodic scan, or
\* leaves the intake tree.
C19_ScanEnqueuesEveryFile ==
    \A p \in AllPaths :
       (WatcherAccepts(p) /\ Exists(p) /\ queue[p].status = "absent")
          ~> (queue[p].status # "absent" \/ ~Exists(p))

\* C20: the jobs a polling round selects are dispatched in the order priority
\* descending, then queued_at ascending, whether they were selected as queued
\* rows or as failed rows.
C20_DispatchOrder ==
    [][wpc = "poll" =>
          \A i, j \in 1..Len(jobs') :
             i < j =>
                LET a == queue[jobs'[i].path]
                    b == queue[jobs'[j].path]
                IN  \/ a.priority > b.priority
                    \/ a.priority = b.priority /\ a.queued_at < b.queued_at]_vars

\* C21: the saved main image is at most 3840 wide and 2160 high, has the
\* input's size when the input fits, and otherwise has one dimension within
\* one pixel of the value the other dimension and the input's ratio give.
C21_ImageWithinCap ==
    img.saved # NoSize =>
       LET w == img.size[1]
           h == img.size[2]
           ow == img.saved[1]
           oh == img.saved[2]
       IN  /\ ow <= max_width /\ oh <= max_height
           /\ ow >= 1 /\ oh >= 1
           /\ (w <= max_width /\ h <= max_height) => img.saved = img.size
           /\ ~(w <= max_width /\ h <= max_height) =>
                 \/ Abs(ow * h - oh * w) <= h
                 \/ Abs(oh * w - ow * h) <= w

\* an image larger than the cap in both dimensions has been saved
C21_Witness ==
    /\ img.saved # NoSize
    /\ img.size[1] > max_width
    /\ img.size[2] > max_height

\* C22 as the spec states it: a 4000x3000 image is recorded 3840 wide and 2880 high
C22_Image4000x3000 ==
    (img.size = <<4000, 3000>> /\ img.saved # NoSize) => img.saved = <<3840, 2880>>

\* C22, amended: a 4000x3000 image is recorded 2880 wide and 2160 high
C22_Image4000x3000Fitted ==
    (img.size = <<4000, 3000>> /\ img.saved # NoSize) => img.saved = <<2880, 2160>>

\* the 4000x3000 image has been saved
C22_Witness == img.size = <<4000, 3000>> /\ img.saved # NoSize

\* C23: the width and height recorded for a video are those of the emitted
\* stream (1280x720 for a 1920x1080 source).
C23_RecordedSizeIsStreamSize ==
    vid.recorded # NoSize =>
       /\ vid.recorded = vid.stream
       /\ vid.size = <<1920, 1080>> => vid.recorded = <<1280, 720>>

\* C24: the emitted stream has even dimensions, its longer edge is at most
\* 1280 and its shorter edge at most 720, and neither dimension is larger
\* than the source's.
C24_StreamWithinBox ==
    vid.stream # NoSize =>
       LET ow == vid.stream[1]
           oh == vid.stream[2]
       IN  /\ ow % 2 = 0 /\ oh % 2 = 0
           /\ Max(ow, oh) <= StreamMaxWidth
           /\ (IF ow <= oh THEN ow ELSE oh) <= StreamMaxHeight
           /\ ow <= vid.size[1] /\ oh <= vid.size[2]

\* a portrait source larger than the box has been encoded
C24_Witness ==
    /\ vid.stream # NoSize
    /\ vid.size[2] > vid.size[1]
    /\ vid.size[1] > StreamMaxWidth

\* C25: for a plaintext of n >= 1 bytes the file written is 16 IV bytes
\* followed by n + p bytes, where p = 16 - (n mod 16) is between 1 and 16,
\* n + p is a multiple of 16, every pad byte equals p, and dropping the
\* padding (the last p bytes, as the last byte announces) gives the plaintext.
C25_PaddingRoundTrip ==
    plain.written # <<>> =>
       LET n == Len(plain.text)
           p == Len(plain.padded) - n
       IN  /\ p = BlockSize - (n % BlockSize)
           /\ p >= 1 /\ p <= BlockSize
           /\ (n + p) % BlockSize = 0
           /\ \A i \in (n + 1)..(n + p) : plain.padded[i] = p
           /\ Len(plain.written) = BlockSize + n + p
           /\ SubSeq(plain.padded, 1, Len(plain.padded) - p) = plain.text
           /\ DecryptFile(KeyByte, plain.written) = plain.text

\* a plaintext whose length is a multiple of the block size has been encrypted
C25_Witness ==
    /\ plain.written # <<>>
    /\ Len(plain.text) % BlockSize = 0
    /\ Len(plain.written) = Len(plain.text) + 2 * BlockSize

\* C26: an entry of the intake directory has a queue row exactly if it is a
\* regular file whose lower-cased suffix is in the image or video whitelist
\* and a discoverer has looked at it; the row's file_type is image exactly for
\* the image suffixes and video exactly for the video suffixes; and the
\* transformer process_file calls is the one of the row's file_type.
C26_WhitelistedSuffixesOnly ==
    LET ext == entry.suffix.letters
        listed == entry.kind = "file" /\ ext \in image_extensions \cup video_extensions
    IN  /\ entry.file_type # "none" <=> (listed /\ entry.seen # {})
        /\ entry.file_type = "image" => ext \in image_extensions
        /\ entry.file_type = "video" => ext \in video_extensions
        /\ entry.transformer # "none" => entry.transformer = entry.file_type

\* a file with an upper-case video suffix has been discovered and dispatched to the video transformer
C26_Witness ==
    /\ entry.kind = "file"
    /\ entry.suffix = [letters |-> ".mov", cased |-> "upper"]
    /\ entry.seen = {"watcher", "startup", "scanner"}
    /\ entry.transformer = "video"

\* C27: when process_file has caught a non-database error of a dispatched job
\* and nothing else fails, the attempt leaves the row as the worker's handler
\* prescribes: queued, with retry_count one higher and error_message,
\* started_at and completed_at cleared, if retry_count + 1 < max_retries;
\* failed with the error string otherwise.
C27_FailedThenRequeued ==
    [][(/\ wpc = "pf_except"
        /\ pf.exc = "error"
        /\ wpc' # "pf_except"
        /\ faults' = faults
        /\ crashes' = crashes)
       => LET old == queue[cur.path]
              new == queue'[cur.path]
          IN  IF old.retry_count + 1 < old.max_retries
              THEN /\ new.status = "queued"
                   /\ new.retry_count = old.retry_count + 1
                   /\ new.error_message = NoMsg
                   /\ new.started_at = NULL
                   /\ new.completed_at = NULL
              ELSE /\ new.status = "failed"
                   /\ new.error_message = StrOf(pf.exc)]_vars

\* C28: while the encoder runs the key-info descriptor exists, and once the
\* job attempt has ended (the worker is back in its loop) it no longer exists,
\* whether the encoder exited zero or non-zero.
C28_KeyInfoRemoved ==
    /\ vjob.encoder = "running" => vjob.key_info
    /\ wpc \in {"poll", "job"} => ~vjob.key_info

\* C29: when line 525 sets the row of a video job to completed, the encoder
\* has exited and the thumbnail task is done.
C29_CompletedAfterBoth ==
    [][(/\ wpc = "pf_complete"
        /\ FileTypeOf(cur.path) = "video"
        /\ queue'[cur.path].status = "completed"
        /\ queue[cur.path].status # "completed")
       => vjob.encoder = "zero" /\ vjob.thumb = "done"]_vars

\* a video job's row has just been set to completed
C29_Witness ==
    /\ wpc = "pf_unlink"
    /\ FileTypeOf(cur.path) = "video"
    /\ queue[cur.path].status = "completed"
    /\ vjob.encoder = "zero"
    /\ vjob.thumb = "done"

\* C30: while the worker hashes a file, transforms an image or waits for the
\* encoder subprocess, the scanner can take its step for every file of the
\* intake directory and the health monitor can take its check.
C30_MonitorsNotBlocked ==
    (\/ wpc = "pf_dup"
     \/ (wpc = "pf_transform" /\ FileTypeOf(cur.path) = "image")
     \/ vjob.encoder = "running")
    => /\ ENABLED HealthCheck
       /\ \A p \in Files : ENABLED ScannerStep(p)

\* C31: the animated preview is attempted only if the animated thumbnail's
\* run exited 0 and left a file of at least 1000 bytes; otherwise the
\* thumbnail is made by the static fallback at start = max(5, duration*0.10)
\* and the preview by the static fallback at start + 5; and the function
\* returns with both thumbnail.webp and preview.webp on disk.
C31_ThumbnailProtocol ==
    LET start == IF tjob.duration \div 10 > 5 THEN tjob.duration \div 10 ELSE 5
        succeeded == /\ tjob.animated_rc = 0
                     /\ tjob.animated_file.exists
                     /\ tjob.animated_file.size >= SizeThreshold
        calls == tjob.static_calls
    IN  /\ tjob.preview_attempted => succeeded
        /\ (tjob.pc \notin {"none", "thumbnail"} /\ ~succeeded) =>
              /\ Len(calls) >= 1
              /\ calls[1] = [target |-> "thumbnail", at |-> start]
        /\ (tjob.pc \notin {"none", "thumbnail", "preview"} /\ ~succeeded) =>
              /\ Len(calls) >= 2
              /\ calls[2] = [target |-> "preview", at |-> start + 5]
        /\ tjob.pc = "returned" => tjob.thumbnail.exists /\ tjob.preview.exists

\* the animated thumbnail failed, every tool run failed too, and the function
\* has returned with the two placeholders
C31_Witness ==
    /\ tjob.pc = "returned"
    /\ tjob.duration = 300
    /\ tjob.animated_rc = 1
    /\ ~tjob.preview_attempted
    /\ tjob.thumbnail = File(MinimalWebp)
    /\ tjob.preview = File(MinimalWebp)
    /\ Len(tjob.static_calls) = 4

\* C32: after the k-th round in a row that ended in a general error the worker
\* sleeps 10*min(k,6) seconds; after the k-th round in a row that ended in a
\* database error it sleeps 10*k seconds for k < 5 and 60 seconds at k = 5; and
\* after a round in which a database error broke out of the job loop it sleeps
\* a backoff, not the 5-second poll interval.
C32_BackoffSleeps ==
    LET k == wloop.streak
    IN  /\ (wloop.ended = "general" /\ wloop.general_run = k) =>
              wloop.slept = 10 * (IF k < 6 THEN k ELSE 6)
        /\ (wloop.ended = "db" /\ wloop.db_run = k /\ k <= 5) =>
              wloop.slept = IF k < 5 THEN 10 * k ELSE 60
        /\ wloop.ended = "job_db" => wloop.slept > PollInterval

\* C33: every file with content that is in the intake root is eventually
\* processed and removed by process_file (as a new asset or as a duplicate),
\* or leaves the directory, whatever row the queue holds for its path.
C33_EveryFileProcessed ==
    \A p \in Paths :
       (Exists(p) /\ fs[p] # EmptyContent) ~> ~Exists(p)

\* C34: when an attempt sets its row to completed or failed, none of the
\* plaintext outputs it wrote (main .webp, thumbnail .webp, preview .webp)
\* is left on disk.
C34_NoPlaintextLeft ==
    [][(/\ wpc \in {"pf_complete", "pf_dup_done", "pf_except"}
        /\ queue[cur.path].status = "processing"
        /\ queue'[cur.path].status \in {"completed", "failed"})
       => \A n \in {"main", "thumb", "preview"} : out[n] = "none"]_vars

\* C35: when the row of a video job is set to failed, the thumbnail task the
\* job created is neither waiting to run nor running.
C35_NoTaskLeftBehind ==
    [][(/\ wpc = "pf_except"
        /\ FileTypeOf(cur.path) = "video"
        /\ queue'[cur.path].status = "failed")
       => vjob.thumb \notin {"scheduled", "running"}]_vars

\* C37: every row has retry_count <= max_retries - 1, so every failed row
\* still satisfies the selection condition retry_count < max_retries of
\* get_failed_jobs_for_retry.
C37_RetryCountBelowMax ==
    \A p \in Paths :
       /\ queue[p].max_retries >= 1
       /\ queue[p].retry_count <= queue[p].max_retries - 1
       /\ queue[p].status = "failed" => queue[p].retry_count < queue[p].max_retries

\* a row that the handler has incremented to max_retries - 1 has failed again
C37_Witness ==
    \E p \in Paths :
       /\ queue[p].status = "failed"
       /\ queue[p].retry_count = queue[p].max_retries - 1

\* C36: a connection that a thread has borrowed and is using is not closed
\* by the other thread's teardown, and a thread that has passed the check of
\* connection_pool does not find it None.
C36_PoolSafeAcrossThreads ==
    \A t \in Threads :
       /\ pool.tpc[t] \in {"test", "use"} => pool.conn[t] # "closed"
       /\ pool.tpc[t] = "getconn" => pool.ref # "none"

====
